---- MODULE Spec2Model ----
(***************************************************************************)
(* pipetone: the greedy thread (chord) solver of src/main.rs.              *)
(*                                                                         *)
(* The model follows generate_threads statement by statement:              *)
(*   preprocess_img (invert + circular mask), the pin ring, and then per   *)
(*   iteration the candidate lines, the parallel max() reduction, the      *)
(*   commit (prev_pins shift, push, erase) and the early-exit test.        *)
(*                                                                         *)
(* Numbers.  Pin positions are f64 values radius * (1 + cos a) where the   *)
(* factor is computed in f32; every such factor is a multiple of 2^-25, so *)
(* positions are held exactly as integers in units of 2^-25 pixel (Scale). *)
(* The truncations of the code (dist as usize, x.floor() as u32, x as u32) *)
(* are integer divisions here.                                             *)
(*                                                                         *)
(* Specifications.  Spec scores the candidates of an iteration in one step *)
(* and then interleaves the combining steps of max(); SpecFanOut also      *)
(* interleaves the scoring of the single items; SpecDense is Spec on a     *)
(* ring of DensePins pins.                                                 *)
(***************************************************************************)
EXTENDS Integers, Sequences, FiniteSets, TLC

\* ------------------------------------------------------------- bounds
MaxRadius == 2
MaxPins == 5
MaxThreads == 4
\* A ring dense enough for pins two apart to be less than a pixel apart at
\* radius 1, and the iterations run on it.
DensePins == 13
DenseThreads == 1

\* ----------------------------------------------------------- geometry
\* One pixel in position units: the f32 factor 1 + cos(alpha) is a multiple
\* of 2^-25, and f64::from(radius) * f64::from(factor) is exact.
Scale == 33554432

\* u8 white level: invert maps v to 255 - v.
LumaMax == 255

\* length = radius * 2 + 1 (main), the side of the square field.
Length(r) == r * 2 + 1

\* Array::linspace(0., 2. * PI, num_pins + 1) mapped through
\* (1. + alpha.cos(), 1. + alpha.sin()) in f32, times 2^25.  Entry k + 1 is
\* pin_positions[k] for radius 1; entry num_pins + 1 is the closing duplicate
\* of pin 0 (alpha = 2 PI in f32, whose sine is 1.7e-7, not 0).
UnitRing(n) ==
    CASE n = 0 -> << <<67108864, 33554432>> >>
      [] n = 1 -> << <<67108864, 33554432>>, <<67108864, 33554436>> >>
      [] n = 2 -> << <<67108864, 33554432>>, <<0, 33554430>>,
                     <<67108864, 33554436>> >>
      [] n = 3 -> << <<67108864, 33554432>>, <<16777214, 62613424>>,
                     <<16777220, 4495440>>, <<67108864, 33554436>> >>
      [] n = 4 -> << <<67108864, 33554432>>, <<33554430, 67108864>>,
                     <<0, 33554430>>, <<33554432, 0>>,
                     <<67108864, 33554436>> >>
      [] n = 5 -> << <<67108864, 33554432>>, <<43923320, 65466592>>,
                     <<6408324, 53277232>>, <<6408328, 13831628>>,
                     <<43923328, 1642272>>, <<67108864, 33554436>> >>
      [] n = 6 -> << <<67108864, 33554432>>, <<50331648, 62613424>>,
                     <<16777214, 62613424>>, <<0, 33554430>>,
                     <<16777220, 4495440>>, <<50331644, 4495440>>,
                     <<67108864, 33554436>> >>
      [] n = 7 -> << <<67108864, 33554432>>, <<54475280, 59788344>>,
                     <<26087868, 66267584>>, <<3322932, 48113152>>,
                     <<3322934, 18995708>>, <<26087866, 841280>>,
                     <<54475288, 7320526>>, <<67108864, 33554436>> >>
      [] n = 13 -> << <<67108864, 33554432>>, <<63265408, 49147956>>,
                      <<52615520, 61169188>>, <<37598968, 66864216>>,
                      <<21655864, 64928368>>, <<8438578, 55805136>>,
                      <<975028, 41584528>>, <<975032, 25524324>>,
                      <<8438582, 11303724>>, <<21655876, 2180490>>,
                      <<37598976, 244650>>, <<52615528, 5939680>>,
                      <<63265416, 17960924>>, <<67108864, 33554436>> >>

\* pin_positions[k], k in 0..num_pins: radius * (1 + cos), radius * (1 + sin).
PinPos(n, r, k) == <<r * UnitRing(n)[k + 1][1], r * UnitRing(n)[k + 1][2]>>

Abs(v) == IF v < 0 THEN 0 - v ELSE v

\* floor(v * v / 2^26) and (v * v) mod 2^26 for 0 <= v < 2^29, by 13-bit
\* limbs so that no intermediate leaves 32 bits.
SqParts(v) ==
    LET B == 8192
        v1 == v \div B
        v0 == v % B
        m == 2 * v1 * v0
        lo == (m % B) * B + v0 * v0
    IN  <<v1 * v1 + (m \div B) + (lo \div (B * B)), lo % (B * B)>>

\* EuclideanNorm.metric_distance(prev_pos, next_pos) as usize: the integer
\* part of the distance in pixels, the largest d with (d * Scale)^2 <= dx^2 + dy^2.
Dist(p, q) ==
    LET sx == SqParts(Abs(p[1] - q[1]))
        sy == SqParts(Abs(p[2] - q[2]))
        hi == sx[1] + sy[1] + ((sx[2] + sy[2]) \div 67108864)
        cands == {d \in 0..46 : d * d <= hi \div 16777216}
    IN  CHOOSE d \in cands : \A e \in cands : e <= d

\* Array::linspace(a, b, n)[k] (k from 0) truncated to a pixel index:
\* a + k * (b - a) / (n - 1) for n > 1, a for n = 1.
LinPixel(a, b, n, k) ==
    IF n > 1 THEN (a * (n - 1) + k * (b - a)) \div ((n - 1) * Scale)
             ELSE a \div Scale

\* x_line / y_line of the segment p -> q as the pixel indices every reader
\* of them takes (x.floor() as u32 when scoring, x as u32 when erasing,
\* drawing and writing): dist samples, none when dist = 0.
LineXs(p, q) == [k \in 1..Dist(p, q) |-> LinPixel(p[1], q[1], Dist(p, q), k - 1)]
LineYs(p, q) == [k \in 1..Dist(p, q) |-> LinPixel(p[2], q[2], Dist(p, q), k - 1)]

\* ------------------------------------------------------- preprocess_img
\* u32::saturating_sub
SaturatingSub(a, b) == IF a > b THEN a - b ELSE 0

\* The mask test of preprocess_img on pixel (x, y), with length / 2 = radius.
OutsideMask(x, y, r) ==
    LET dx == SaturatingSub(x, Length(r) \div 2)
        dy == SaturatingSub(y, Length(r) \div 2)
    IN  dx * dx + dy * dy > r * r

\* invert(&mut img_resized), then zero the pixels the mask test selects.
PreprocessImg(resized, r) ==
    [c \in DOMAIN resized |->
        IF OutsideMask(c[1], c[2], r) THEN 0 ELSE LumaMax - resized[c]]

\* ------------------------------------------------------ candidate lines
\* line_sum: the sum of the field over the samples of the line.
RECURSIVE SumTo(_, _, _, _)
SumTo(f, xs, ys, k) ==
    IF k = 0 THEN 0 ELSE f[<<xs[k], ys[k]>>] + SumTo(f, xs, ys, k - 1)

LineSum(f, xs, ys) == SumTo(f, xs, ys, Len(xs))

\* Index into pin_positions of element k (from 0) of
\* pin_positions[prev_pin..].chain(&pin_positions[..prev_pin]).
ChainIndex(n, prev_pin, k) ==
    IF prev_pin + k <= n THEN prev_pin + k ELSE prev_pin + k - (n + 1)

\* Mutant of the pin range: the offset by prev_pin left out.
NextPinNoOffset(n, prev_pin, j) == j % n

\* The pin that (1..num_pins).map(|j| (prev_pin + j) % num_pins) yields for j.
NextPin(n, prev_pin, j) == (prev_pin + j) % n

\* Element j (from 1) of the zip of the pins with the lines, as a Line:
\* the j-th pin with the j-th line of the chain, scored on field f.
Candidate(f, n, r, prev_pin, j) ==
    LET p == PinPos(n, r, prev_pin)
        q == PinPos(n, r, ChainIndex(n, prev_pin, j - 1))
        xs == LineXs(p, q)
        ys == LineYs(p, q)
    IN  [dest_pin |-> NextPin(n, prev_pin, j), xs |-> xs, ys |-> ys,
         sum |-> LineSum(f, xs, ys)]

\* Mutants of the filter: the negation dropped; the history element ignored.
EligibleInverted(pp, next_pin) == next_pin = pp[1] \/ next_pin = pp[2]
EligibleNoHistory(pp, next_pin) == next_pin # pp[2]

\* .filter(|(next_pin, _)| !prev_pins.contains(&next_pin))
Eligible(pp, next_pin) == next_pin # pp[1] /\ next_pin # pp[2]

\* The items that reach max(), in order.
Candidates(f, n, r, pp) ==
    LET all == [j \in 1..(n - 1) |-> Candidate(f, n, r, pp[2], j)]
    IN  SelectSeq(all, LAMBDA l : Eligible(pp, l.dest_pin))

\* Mutant of the maximum: a tie keeps the left operand.
OrdMaxKeepsLeft(a, b) == IF b.sum > a.sum THEN b ELSE a

\* Ord::max(a, b) under impl Ord for Line (cmp on sum alone): b unless a is
\* strictly greater.
OrdMax(a, b) == IF a.sum > b.sum THEN a ELSE b

\* Mutant of the erase: the samples painted white instead of cleared.
EraseToWhite(f, xs, ys) ==
    [c \in DOMAIN f |->
        IF \E k \in 1..Len(xs) : c = <<xs[k], ys[k]>> THEN LumaMax ELSE f[c]]

\* Mutant of the erase: the last sample of the line left as it is.
EraseSkipsLast(f, xs, ys) ==
    [c \in DOMAIN f |->
        IF \E k \in 1..(Len(xs) - 1) : c = <<xs[k], ys[k]>> THEN 0 ELSE f[c]]

\* Mutant of the erase: the samples faded to half instead of cleared.
EraseHalves(f, xs, ys) ==
    [c \in DOMAIN f |->
        IF \E k \in 1..Len(xs) : c = <<xs[k], ys[k]>> THEN f[c] \div 2
        ELSE f[c]]

\* The erase of the commit: every sample of the line set to 0.
Erase(f, xs, ys) ==
    [c \in DOMAIN f |->
        IF \E k \in 1..Len(xs) : c = <<xs[k], ys[k]>> THEN 0 ELSE f[c]]

\* --------------------------------------------------------------- state
VARIABLES
    radius,       \* u32, after main's clamp
    num_pins,     \* Opt.pins
    max_threads,  \* Opt.threads
    img,          \* img_resized, then img_preprocessed
    pc,           \* position in generate_threads
    i,            \* the loop index
    prev_pins,    \* [usize; 2], as a pair
    threads,      \* the result vector: records xs, ys, dest_pin
    parts,        \* partial results of the max() reduction, in item order
    src_pins,     \* history: prev_pin of each iteration that committed
    img0,         \* history: the field as preprocess_img returned it
    hit_current,  \* history: some selected destination was prev_pin
    fan           \* history of the fan-out in progress: the field at its
                  \* start, the items it holds, the items scored so far

vars == <<radius, num_pins, max_threads, img, pc, i, prev_pins, threads,
          parts, src_pins, img0, hit_current, fan>>

Cells(r) == (0..(2 * r)) \X (0..(2 * r))

\* Gray levels of the resized input.
Grays == {0, 128, 255}

\* Region of a pixel about the centre (radius, radius): one of the four open
\* quadrants, or the axes through the centre.
Region(c, r) ==
    IF c[1] = r \/ c[2] = r THEN 0
    ELSE IF c[1] > r THEN (IF c[2] > r THEN 1 ELSE 4)
    ELSE (IF c[2] > r THEN 2 ELSE 3)

\* Resized grayscale inputs: a background level and one pixel of its own
\* level, or black and white by region.
RegionImages(r) ==
    {[c \in Cells(r) |-> lv[Region(c, r)]] : lv \in [0..4 -> {0, LumaMax}]}

Images(r) ==
    {[c \in Cells(r) |-> IF c = hot THEN h ELSE g] :
        hot \in Cells(r), g \in Grays, h \in Grays}
    \cup RegionImages(r)

\* Values of Opt.threads: no iteration, one iteration, MaxThreads iterations
\* (a run with a budget in between is a prefix of the last).
Budgets == {0, 1, MaxThreads}

Init ==
    /\ radius \in 0..MaxRadius
    /\ num_pins \in 0..MaxPins
    /\ max_threads \in Budgets
    /\ img \in Images(radius)
    /\ pc = "preprocess"
    /\ i = 0
    /\ prev_pins = <<0, 0>>
    /\ threads = <<>>
    /\ parts = <<>>
    /\ src_pins = <<>>
    /\ img0 = img
    /\ hit_current = FALSE
    /\ fan = [start |-> <<>>, total |-> 0, scored |-> 0]

\* let mut img_preprocessed = preprocess_img(img, radius, length);
Preprocess ==
    /\ pc = "preprocess"
    /\ img' = PreprocessImg(img, radius)
    /\ img0' = img'
    /\ pc' = "loop"
    /\ UNCHANGED <<radius, num_pins, max_threads, i, prev_pins, threads,
                   parts, src_pins, hit_current, fan>>

\* The loop head with the range read as 0..=max_threads.
EvaluateInclusive ==
    /\ pc = "loop"
    /\ i <= max_threads
    /\ parts' = Candidates(img, num_pins, radius, prev_pins)
    /\ pc' = "reduce"
    /\ UNCHANGED <<radius, num_pins, max_threads, img, i, prev_pins, threads,
                   src_pins, img0, hit_current, fan>>

\* Loop head with i < max_threads: the candidates of this iteration, scored
\* on the field as it is now, handed to the reduction.
Evaluate ==
    /\ pc = "loop"
    /\ i < max_threads
    /\ parts' = Candidates(img, num_pins, radius, prev_pins)
    /\ pc' = "reduce"
    /\ UNCHANGED <<radius, num_pins, max_threads, img, i, prev_pins, threads,
                   src_pins, img0, hit_current, fan>>

\* One step of the worker pool's reduction: two neighbouring partial results
\* are combined by Ord::max, left operand first.
Combine ==
    /\ pc = "reduce"
    /\ \E k \in 1..(Len(parts) - 1) :
        parts' = [m \in 1..(Len(parts) - 1) |->
                    IF m < k THEN parts[m]
                    ELSE IF m = k THEN OrdMax(parts[k], parts[k + 1])
                    ELSE parts[m + 1]]
    /\ UNCHANGED <<radius, num_pins, max_threads, img, pc, i, prev_pins,
                   threads, src_pins, img0, hit_current, fan>>

\* .unwrap() of Some(best), then the rest of the loop body.
Commit ==
    /\ pc = "reduce"
    /\ Len(parts) = 1
    /\ LET best == parts[1]
           prev_pin == prev_pins[2]
       IN  /\ prev_pins' = <<prev_pins[2], best.dest_pin>>
           /\ threads' = Append(threads,
                  [xs |-> best.xs, ys |-> best.ys, dest_pin |-> best.dest_pin])
           /\ img' = Erase(img, best.xs, best.ys)
           /\ src_pins' = Append(src_pins, prev_pin)
           /\ hit_current' = (hit_current \/ best.dest_pin = prev_pin)
           /\ IF best.dest_pin = prev_pin
                 THEN pc' = "done" /\ i' = i
                 ELSE pc' = "loop" /\ i' = i + 1
    /\ parts' = <<>>
    /\ UNCHANGED <<radius, num_pins, max_threads, img0, fan>>

\* .unwrap() of None: no item reached max().
Panic ==
    /\ pc = "reduce"
    /\ Len(parts) = 0
    /\ pc' = "panic"
    /\ UNCHANGED <<radius, num_pins, max_threads, img, i, prev_pins, threads,
                   parts, src_pins, img0, hit_current, fan>>

\* Mutant of the return: the loop leaves one iteration early.
ReturnEarly ==
    /\ pc = "loop"
    /\ i >= max_threads - 1
    /\ pc' = "done"
    /\ UNCHANGED <<radius, num_pins, max_threads, img, i, prev_pins, threads,
                   parts, src_pins, img0, hit_current, fan>>

\* Loop exhausted: generate_threads returns threads.
Return ==
    /\ pc = "loop"
    /\ i = max_threads
    /\ pc' = "done"
    /\ UNCHANGED <<radius, num_pins, max_threads, img, i, prev_pins, threads,
                   parts, src_pins, img0, hit_current, fan>>

\* ------------------------------------------------- the fan-out, step by step
\* The parallel iterator is lazy: the closure that scores a line runs on a
\* worker inside max(), per item, interleaved with the combining steps. An
\* item not yet scored carries no sum.
Scored(l) == "sum" \in DOMAIN l

\* Loop head with i < max_threads: the eligible (pin, line) items enter
\* max() unscored. (The items the filter drops are scored as well, and
\* dropped with their scores; they are not kept here.)
Fork ==
    /\ pc = "loop"
    /\ i < max_threads
    /\ LET cs == Candidates(img, num_pins, radius, prev_pins)
       IN  /\ parts' = [k \in 1..Len(cs) |->
                          [dest_pin |-> cs[k].dest_pin, xs |-> cs[k].xs,
                           ys |-> cs[k].ys]]
           /\ fan' = [start |-> img, total |-> Len(cs), scored |-> 0]
    /\ pc' = "reduce"
    /\ UNCHANGED <<radius, num_pins, max_threads, img, i, prev_pins, threads,
                   src_pins, img0, hit_current>>

\* A worker scores one item: line_sum over the field it borrows, img as it
\* is when the closure runs.
Score ==
    /\ pc = "reduce"
    /\ \E k \in 1..Len(parts) :
        /\ ~Scored(parts[k])
        /\ parts' = [parts EXCEPT ![k] =
                        [dest_pin |-> @.dest_pin, xs |-> @.xs, ys |-> @.ys,
                         sum |-> LineSum(img, @.xs, @.ys)]]
    /\ fan' = [fan EXCEPT !.scored = @ + 1]
    /\ UNCHANGED <<radius, num_pins, max_threads, img, pc, i, prev_pins,
                   threads, src_pins, img0, hit_current>>

\* A worker combines two neighbouring scored results by Ord::max.
Join ==
    /\ pc = "reduce"
    /\ \E k \in 1..(Len(parts) - 1) :
        /\ Scored(parts[k])
        /\ Scored(parts[k + 1])
        /\ parts' = [m \in 1..(Len(parts) - 1) |->
                        IF m < k THEN parts[m]
                        ELSE IF m = k THEN OrdMax(parts[k], parts[k + 1])
                        ELSE parts[m + 1]]
    /\ UNCHANGED <<radius, num_pins, max_threads, img, pc, i, prev_pins,
                   threads, src_pins, img0, hit_current, fan>>

\* Mutant of the commit: the first partial result is erased and pushed as
\* soon as it is scored, while the other workers are still running.
CommitEager ==
    /\ pc = "reduce"
    /\ Len(parts) >= 1
    /\ Scored(parts[1])
    /\ img' = Erase(img, parts[1].xs, parts[1].ys)
    /\ threads' = Append(threads,
           [xs |-> parts[1].xs, ys |-> parts[1].ys,
            dest_pin |-> parts[1].dest_pin])
    /\ src_pins' = Append(src_pins, prev_pins[2])
    /\ parts' = Tail(parts)
    /\ UNCHANGED <<radius, num_pins, max_threads, pc, i, prev_pins, img0,
                   hit_current, fan>>

\* max() returns once every item is scored and combined into one; the rest
\* of the loop body then runs as in Commit.
CommitJoined ==
    /\ pc = "reduce"
    /\ Len(parts) = 1
    /\ Scored(parts[1])
    /\ Commit

NextFanOut ==
    Preprocess \/ Fork \/ Score \/ Join \/ CommitJoined \/ Panic \/ Return

\* The inputs of the step-by-step runs: the images that are black and white
\* by region.
InitFanOut ==
    /\ radius \in 0..MaxRadius
    /\ num_pins \in 0..MaxPins
    /\ max_threads \in Budgets
    /\ img \in RegionImages(radius)
    /\ pc = "preprocess"
    /\ i = 0
    /\ prev_pins = <<0, 0>>
    /\ threads = <<>>
    /\ parts = <<>>
    /\ src_pins = <<>>
    /\ img0 = img
    /\ hit_current = FALSE
    /\ fan = [start |-> <<>>, total |-> 0, scored |-> 0]

SpecFanOut == InitFanOut /\ [][NextFanOut]_vars

Next == Preprocess \/ Evaluate \/ Combine \/ Commit \/ Panic \/ Return

Spec == Init /\ [][Next]_vars

\* ------------------------------------------------------- the dense ring
\* The same program on valid inputs with many pins on a small ring.
InitDense ==
    /\ radius \in 1..MaxRadius
    /\ num_pins = DensePins
    /\ max_threads \in 0..DenseThreads
    /\ img \in RegionImages(radius)
    /\ pc = "preprocess"
    /\ i = 0
    /\ prev_pins = <<0, 0>>
    /\ threads = <<>>
    /\ parts = <<>>
    /\ src_pins = <<>>
    /\ img0 = img
    /\ hit_current = FALSE
    /\ fan = [start |-> <<>>, total |-> 0, scored |-> 0]

NextDense == Preprocess \/ Evaluate \/ Combine \/ Commit \/ Return

SpecDense == InitDense /\ [][NextDense]_vars

\* ------------------------------------------------------------ properties
\* The items of the current iteration as they entered the reduction (the
\* field and prev_pins do not change while pc = "reduce").
CurrentCandidates == Candidates(img, num_pins, radius, prev_pins)

MaxSum(cs) == CHOOSE v \in {cs[k].sum : k \in 1..Len(cs)} :
                  \A k \in 1..Len(cs) : cs[k].sum <= v

\* The first and the last item of maximal sum.
FirstMax(cs) ==
    cs[CHOOSE k \in 1..Len(cs) :
          /\ cs[k].sum = MaxSum(cs)
          /\ \A m \in 1..(k - 1) : cs[m].sum < MaxSum(cs)]
LastMax(cs) ==
    cs[CHOOSE k \in 1..Len(cs) :
          /\ cs[k].sum = MaxSum(cs)
          /\ \A m \in (k + 1)..Len(cs) : cs[m].sum < MaxSum(cs)]

\* The inputs the documentation admits: pins >= 3 and radius > 0.
ValidInput == num_pins >= 3 /\ radius >= 1

\* Pixel of a position.
PixelOf(p) == <<p[1] \div Scale, p[2] \div Scale>>

\* C1: for num_pins >= 3 generate_threads returns (never panics), runs at most
\* max_threads iterations, returns at most max_threads chords, and has run
\* fewer than max_threads iterations exactly when some selected destination
\* was the current pin.
C1_Termination ==
    num_pins >= 3 =>
        /\ pc # "panic"
        /\ i <= max_threads
        /\ Len(threads) <= max_threads
        /\ pc = "done" => ((Len(src_pins) < max_threads) <=> hit_current)

C1_Witness ==
    /\ pc = "done"
    /\ ValidInput
    /\ max_threads = MaxThreads
    /\ Len(src_pins) = max_threads
    /\ ~hit_current

\* C2: on a field that is zero everywhere (num_pins >= 3) the returned path
\* is empty, whatever max_threads is.
C2_ZeroFieldEmptyPath ==
    (pc = "done" /\ ValidInput /\ \A c \in DOMAIN img0 : img0[c] = 0)
        => threads = <<>>

\* C3: the line and score attributed to candidate pin p are those of the
\* segment from the current pin's position to pin p's position, every pin
\* other than the current one and those in prev_pins is a candidate, and a
\* committed chord's line ends at the pixel of its recorded destination pin.
C3_LineBelongsToPin ==
    ValidInput =>
    /\ pc = "reduce" =>
        LET cs == CurrentCandidates
            p == PinPos(num_pins, radius, prev_pins[2])
        IN  /\ \A k \in 1..Len(cs) :
                 LET q == PinPos(num_pins, radius, cs[k].dest_pin)
                 IN  /\ cs[k].xs = LineXs(p, q)
                     /\ cs[k].ys = LineYs(p, q)
                     /\ cs[k].sum = LineSum(img, LineXs(p, q), LineYs(p, q))
            /\ \A q \in 0..(num_pins - 1) :
                 Eligible(prev_pins, q) => \E k \in 1..Len(cs) : cs[k].dest_pin = q
    /\ \A k \in 1..Len(threads) :
          LET t == threads[k]
          IN  /\ Len(t.xs) > 0
              /\ <<t.xs[Len(t.xs)], t.ys[Len(t.ys)]>> =
                     PixelOf(PinPos(num_pins, radius, t.dest_pin))

\* C4: among the eligible candidates of maximal score the solver selects the
\* first in the enumeration (current+1) % n, (current+2) % n, ...
C4_LowestOffsetWins ==
    (pc = "reduce" /\ Len(parts) = 1 /\ ValidInput)
        => parts[1].dest_pin = FirstMax(CurrentCandidates).dest_pin

\* C5: no committed chord goes from a pin to itself, and no chord is the
\* reverse of the chord committed just before it.
C5_AntiCycling ==
    \A k \in 1..Len(threads) :
        /\ threads[k].dest_pin # src_pins[k]
        /\ k > 1 => ~(/\ src_pins[k] = threads[k - 1].dest_pin
                      /\ threads[k].dest_pin = src_pins[k - 1])

\* The previous source pin was a candidate position of the enumeration, was
\* excluded, and the line zipped with it scored above every eligible item.
C5_Witness ==
    /\ pc = "reduce"
    /\ ValidInput
    /\ Len(threads) >= 1
    /\ Len(parts) = 1
    /\ \E j \in 1..(num_pins - 1) :
          LET c == Candidate(img, num_pins, radius, prev_pins[2], j)
          IN  /\ c.dest_pin = prev_pins[1]
              /\ c.sum > MaxSum(CurrentCandidates)

\* The path of a run that takes, in each of k iterations, the last item of
\* maximal sum in candidate order: a function of field, prev_pins and k alone.
RECURSIVE SequentialRun(_, _, _, _)
SequentialRun(f, pp, k, acc) ==
    LET cs == Candidates(f, num_pins, radius, pp)
    IN  IF k = 0 \/ Len(cs) = 0 THEN acc
        ELSE LET best == LastMax(cs)
                 out == Append(acc, [xs |-> best.xs, ys |-> best.ys,
                                     dest_pin |-> best.dest_pin])
             IN  IF best.dest_pin = pp[2] THEN out
                 ELSE SequentialRun(Erase(f, best.xs, best.ys),
                                    <<pp[2], best.dest_pin>>, k - 1, out)

\* C6: the item the reduction ends with does not depend on how neighbouring
\* partial results were combined: it is always the last item of maximal sum in
\* candidate order; and the returned path is the one function of the inputs
\* that this choice determines, under every schedule.
C6_ReductionDeterministic ==
    /\ (pc = "reduce" /\ Len(parts) = 1) => parts[1] = LastMax(CurrentCandidates)
    /\ pc = "done" => threads = SequentialRun(img0, <<0, 0>>, max_threads, <<>>)

\* A finished reduction over at least three items whose maximal sum is positive
\* and shared by two of them.
C6_Witness ==
    /\ pc = "reduce"
    /\ ValidInput
    /\ Len(parts) = 1
    /\ LET cs == CurrentCandidates
       IN  /\ Len(cs) >= 3
           /\ MaxSum(cs) > 0
           /\ \E j, k \in 1..Len(cs) :
                 j < k /\ cs[j].sum = MaxSum(cs) /\ cs[k].sum = MaxSum(cs)

\* C7: once preprocess_img has run, every cell whose squared distance from
\* the centre (radius, radius) exceeds radius^2 holds zero.
C7_OutsideCircleZero ==
    (pc # "preprocess" /\ ValidInput) =>
        \A c \in DOMAIN img :
            (c[1] - radius) * (c[1] - radius) + (c[2] - radius) * (c[2] - radius)
                > radius * radius
            => img[c] = 0

\* C8: each chord after the first starts at the pin where the chord before it
\* ended, and its first sample is the last sample of the chord before it
\* (stated for chords of two samples or more, whose last sample is the end
\* point of the line).
C8_PathConnected ==
    ValidInput =>
        \A k \in 2..Len(threads) :
            /\ src_pins[k] = threads[k - 1].dest_pin
            /\ (Len(threads[k].xs) >= 2 /\ Len(threads[k - 1].xs) >= 2) =>
               <<threads[k].xs[1], threads[k].ys[1]>> =
                   <<threads[k - 1].xs[Len(threads[k - 1].xs)],
                     threads[k - 1].ys[Len(threads[k - 1].ys)]>>

\* C9: during the solve no step raises the value of a field cell, and no cell
\* becomes negative.
C9_FieldNonIncreasing ==
    [][pc # "preprocess" =>
          \A c \in DOMAIN img : img'[c] <= img[c] /\ img'[c] >= 0]_vars

\* A commit has lowered a cell that was positive.
C9_Witness ==
    /\ ValidInput
    /\ Len(threads) >= 1
    /\ \E c \in DOMAIN img : img[c] < img0[c]

\* C10: with num_pins < 3 or radius = 0 the run is rejected before any
\* candidate is evaluated, any chord is committed or the field is changed.
C10_InvalidInputRejected ==
    ~ValidInput =>
        /\ parts = <<>>
        /\ threads = <<>>
        /\ pc \notin {"preprocess"} => img = img0

\* C11: with max_threads = 0 the loop body never runs: no candidate is
\* evaluated (the reduction is never entered, nothing panics), the path
\* stays empty and the field stays as preprocess_img returned it, for every
\* field and every num_pins (0, 1 and 2 included).
C11_ZeroBudget ==
    max_threads = 0 =>
        /\ pc \in {"preprocess", "loop", "done"}
        /\ parts = <<>>
        /\ threads = <<>>
        /\ src_pins = <<>>
        /\ i = 0
        /\ prev_pins = <<0, 0>>
        /\ pc # "preprocess" => img = img0

\* The call has returned with max_threads = 0 on a field that had a chord
\* worth taking.
C11_Witness ==
    /\ pc = "done"
    /\ max_threads = 0
    /\ ValidInput
    /\ \E k \in 1..Len(CurrentCandidates) : CurrentCandidates[k].sum > 0

\* C12: for num_pins >= 3 the filter never removes every candidate: in every
\* iteration that is reached, at least one item enters the reduction, so
\* max() is Some and unwrap() does not panic.
C12_CandidatesNonEmpty ==
    num_pins >= 3 =>
        /\ pc = "reduce" => Len(parts) >= 1
        /\ pc = "loop" /\ i < max_threads =>
               Len(Candidates(img, num_pins, radius, prev_pins)) >= 1
        /\ pc # "panic"

\* The tight case: three pins, one chord committed, and the filter leaves
\* exactly one candidate of the two.
C12_Witness ==
    /\ pc = "reduce"
    /\ num_pins = 3
    /\ Len(threads) >= 1
    /\ prev_pins[1] # prev_pins[2]
    /\ Len(parts) = 1
    /\ Len(CurrentCandidates) = 1

\* The score on field f of the chord between pins a and b: the sum of f over
\* the samples of the line from a's position to b's.
ChordScore(f, n, r, a, b) ==
    LET p == PinPos(n, r, a)
        q == PinPos(n, r, b)
    IN  LineSum(f, LineXs(p, q), LineYs(p, q))

\* C13: the item that leaves the reduction is the best chord of the
\* iteration: no pin that differs from the current pin and is not in
\* prev_pins has a chord from the current pin of strictly higher score, on
\* the field as the iteration found it, than the committed item, whether
\* the committed item is scored by the samples it carries or by the chord
\* to its dest_pin.
C13_CommittedIsBest ==
    (pc = "reduce" /\ Len(parts) = 1 /\ ValidInput) =>
        \A p \in 0..(num_pins - 1) :
            Eligible(prev_pins, p) =>
                \/ ChordScore(img, num_pins, radius, prev_pins[2], p)
                       <= parts[1].sum
                \/ ChordScore(img, num_pins, radius, prev_pins[2], p)
                       <= ChordScore(img, num_pins, radius, prev_pins[2],
                                     parts[1].dest_pin)

\* Cell c is one of the samples (xs[k], ys[k]).
OnLine(c, xs, ys) == \E k \in 1..Len(xs) : c = <<xs[k], ys[k]>>

\* C14: the step that commits the item best left by the reduction appends
\* exactly one chord, best's, to the path and keeps the earlier entries;
\* sets prev_pins to the old second element followed by best's pin; zeroes
\* every field cell among best's samples and leaves every other cell as it
\* was.
C14_CommitFrame ==
    [][(pc = "reduce" /\ Len(parts) = 1 /\ pc' # "reduce") =>
          LET best == parts[1]
          IN  /\ Len(threads') = Len(threads) + 1
              /\ \A k \in 1..Len(threads) : threads'[k] = threads[k]
              /\ threads'[Len(threads')] =
                     [xs |-> best.xs, ys |-> best.ys,
                      dest_pin |-> best.dest_pin]
              /\ prev_pins' = <<prev_pins[2], best.dest_pin>>
              /\ DOMAIN img' = DOMAIN img
              /\ \A c \in DOMAIN img :
                     img'[c] = IF OnLine(c, best.xs, best.ys) THEN 0
                               ELSE img[c]]_vars

\* A second chord has been committed: its line has several samples, the
\* commit cleared a cell that the first commit had left positive, and cells
\* off both lines are still positive.
C14_Witness ==
    /\ ValidInput
    /\ Len(threads) = 2
    /\ Len(threads[2].xs) >= 2
    /\ prev_pins = <<src_pins[2], threads[2].dest_pin>>
    /\ \E c \in DOMAIN img :
           /\ OnLine(c, threads[2].xs, threads[2].ys)
           /\ ~OnLine(c, threads[1].xs, threads[1].ys)
           /\ img0[c] > 0
           /\ img[c] = 0
    /\ \E c \in DOMAIN img : img[c] > 0

\* C15: within an iteration every candidate is scored against the field as
\* it stood when the iteration began: a scoring step reads that field, every
\* score held by the reduction is the line's sum on it, and the field changes
\* (the erase) only after all the iteration's candidates have been scored
\* and combined into one, so no evaluation of the same iteration sees the
\* erasure.
C15_ScoredBeforeErase ==
    [][pc = "reduce" =>
          /\ fan.total = Cardinality({p \in 0..(num_pins - 1) :
                                          Eligible(prev_pins, p)})
          /\ \A k \in 1..Len(parts) :
                 Scored(parts[k]) =>
                     parts[k].sum =
                         LineSum(fan.start, parts[k].xs, parts[k].ys)
          /\ fan'.scored # fan.scored => img = fan.start
          /\ img' # img =>
                 /\ fan.scored = fan.total
                 /\ Len(parts) = 1
                 /\ \A k \in 1..Len(parts') : ~Scored(parts'[k])]_vars

\* The fan-out of a later iteration is under way on a field an earlier
\* commit has erased from: some items are scored, some are not, and two
\* have been combined.
C15_Witness ==
    /\ pc = "reduce"
    /\ ValidInput
    /\ Len(threads) >= 1
    /\ img # img0
    /\ fan.scored >= 2
    /\ fan.scored < fan.total
    /\ Len(parts) < fan.total
    /\ \E k \in 1..Len(parts) : Scored(parts[k]) /\ parts[k].sum > 0

\* C16: every line the iteration rasterizes has at least one sample, and
\* the zero-length line from the current pin's position to itself (the
\* first line of the chain) is the single pixel of that position.
C16_LineNonEmpty ==
    (pc = "reduce" /\ ValidInput) =>
        LET p == PinPos(num_pins, radius, prev_pins[2])
        IN  /\ \A j \in 1..(num_pins - 1) :
                   LET q == PinPos(num_pins, radius,
                                   ChainIndex(num_pins, prev_pins[2], j - 1))
                   IN  Len(LineXs(p, q)) >= 1 /\ Len(LineYs(p, q)) >= 1
            /\ LineXs(p, p) = <<PixelOf(p)[1]>>
            /\ LineYs(p, p) = <<PixelOf(p)[2]>>

\* C17: the erase is idempotent. For every item the reduction holds, erasing
\* its samples twice gives the field that erasing them once gives, and the
\* line's sum on the erased field is zero; for every chord committed so far,
\* erasing its samples again changes no cell of the current field and its
\* sum on the current field is zero.
C17_EraseIdempotent ==
    /\ pc = "reduce" =>
           \A k \in 1..Len(parts) :
               LET once == Erase(img, parts[k].xs, parts[k].ys)
               IN  /\ Erase(once, parts[k].xs, parts[k].ys) = once
                   /\ LineSum(once, parts[k].xs, parts[k].ys) = 0
    /\ \A m \in 1..Len(threads) :
           /\ Erase(img, threads[m].xs, threads[m].ys) = img
           /\ LineSum(img, threads[m].xs, threads[m].ys) = 0

\* A committed chord whose line had a positive sum when it was committed
\* comes up again as a candidate of a later iteration, with the same samples.
C17_Witness ==
    /\ pc = "reduce"
    /\ ValidInput
    /\ \E m \in 1..Len(threads) :
           /\ LineSum(img0, threads[m].xs, threads[m].ys) > 0
           /\ \E k \in 1..Len(parts) :
                  /\ parts[k].xs = threads[m].xs
                  /\ parts[k].ys = threads[m].ys
                  /\ parts[k].sum = 0

\* C18: for num_pins >= 3 the destination selected is never the current
\* pin, so the early exit at the break never fires: every iteration that
\* starts commits one chord and goes on, and the call returns exactly
\* max_threads chords, whatever the field (all-zero fields included).
C18_FullBudget ==
    num_pins >= 3 =>
        /\ ~hit_current
        /\ pc # "panic"
        /\ (pc = "reduce" /\ Len(parts) = 1) =>
               parts[1].dest_pin # prev_pins[2]
        /\ \A k \in 1..Len(threads) : threads[k].dest_pin # src_pins[k]
        /\ pc \in {"loop", "reduce"} => Len(threads) = i
        /\ pc = "done" => Len(threads) = max_threads

\* The call has returned MaxThreads chords on a field that was all zero
\* from the start.
C18_Witness ==
    /\ pc = "done"
    /\ ValidInput
    /\ max_threads = MaxThreads
    /\ Len(threads) = MaxThreads
    /\ \A c \in DOMAIN img0 : img0[c] = 0

\* C19: on valid input the item committed is never the first item of the
\* iteration (the one that carries the empty line from the current pin's
\* position to itself), and every committed chord has at least one sample,
\* so that save_csv's x_line.len() - 1 and x_line[0] are defined for it.
C19_CommittedLineNonEmpty ==
    ValidInput =>
        /\ (pc = "reduce" /\ Len(parts) = 1) =>
               parts[1].dest_pin # NextPin(num_pins, prev_pins[2], 1)
        /\ \A k \in 1..Len(threads) :
               Len(threads[k].xs) >= 1 /\ Len(threads[k].ys) >= 1

====
